---- MODULE Spec2Model ----
(***************************************************************************)
(* Model of tellapart/aurproxy/mirror.py: the MirrorUpdater that keeps the *)
(* launch script of the traffic mirroring process (gor) in step with the  *)
(* endpoints of a source.                                                  *)
(*                                                                         *)
(* Scheduling is gevent's: one thread, greenlets interleave only where a  *)
(* greenlet blocks.  An update() invocation is therefore cut into steps at *)
(* its blocking calls (template read, script read, script write, process  *)
(* sweep); everything between two blocking calls is one atomic action.    *)
(* Time is abstracted: a tick scheduled with spawn_later fires at some    *)
(* later moment, whatever the delay.                                       *)
(***************************************************************************)
EXTENDS FiniteSets, Integers, Sequences, TLC

----------------------------------------------------------------------------
(* Bounds of the model *)

\* number of update() calls made from outside the tick loop
MaxDirect == 1
\* saturation of the counter of consecutive failed attempts
MaxFails == 2
\* saturation of the counter of notifications since the last update()
MaxNotes == 2

\* endpoints the source may report
Endpoints == {"10.0.0.5:9000"}
\* process ids of the process table
Pids == {1, 2, 3}

\* one slot per update() invocation that can be in progress at once:
\* the loop started by start()/set_up() plus one per direct call
Slots == 1..(MaxDirect + 1)

----------------------------------------------------------------------------
(* Module constants, mirror.py:28-38 *)

FALLBACK_MSG == "No mirror source endpoints found."
GOR_PATH == "/opt/go/bin/gor"
FALLBACK_COMMAND == [kind |-> "fallback", msg |-> FALLBACK_MSG]

\* constructor arguments ports and max_qps (fixed for the engine's life)
Ports == <<8080, 8081>>
MaxQps == 100

----------------------------------------------------------------------------
(* Command generation, mirror.py:176-220 *)

\* _generate_context: the mapping handed to the template
GenerateContextM(eps) ==
  [gor_path |-> GOR_PATH, ports |-> Ports, endpoints |-> {},
   max_qps |-> MaxQps]
GenerateContext(eps) ==
  [gor_path |-> GOR_PATH, ports |-> Ports, endpoints |-> eps,
   max_qps |-> MaxQps]

\* _render, when it does not raise: the template's output is a function of
\* the context and of nothing else
Render(ctx) == [kind |-> "gor", ctx |-> ctx]

NoEndpointsM(eps) == FALSE
\* "if not self._source.endpoints", line 183
NoEndpoints(eps) == eps = {}

\* _generate_command, when _render does not raise
GenerateCommand(eps) ==
  IF NoEndpoints(eps) THEN FALLBACK_COMMAND ELSE Render(GenerateContext(eps))

----------------------------------------------------------------------------
(* Process table *)

\* command lines as psutil reports them: a list of arguments, each argument
\* a list of text fragments
CmdLine ==
  [p \in Pids |->
     CASE p = 1 -> << <<GOR_PATH>>, <<"--input-raw", ":8080">> >>
       [] p = 2 -> << <<"python">>, <<"-c">>,
                      <<"print '", FALLBACK_MSG, "'">> >>
       [] OTHER -> << <<"nginx">>, <<"-g">> >>]

RECURSIVE JoinArgs(_)
\* ' '.join(proc.cmdline())
JoinArgs(args) ==
  IF args = << >> THEN << >>
  ELSE IF Len(args) = 1 THEN Head(args)
  ELSE Head(args) \o <<" ">> \o JoinArgs(Tail(args))

\* needle in hay, for a needle of one fragment
Contains(needle, hay) == \E k \in 1..Len(hay) : hay[k] = needle

MatchesM(cmd_line) == Contains(GOR_PATH, cmd_line)
\* the test of _kill_running, mirror.py:287-288
Matches(cmd_line) ==
  Contains(GOR_PATH, cmd_line) \/ Contains(FALLBACK_MSG, cmd_line)

----------------------------------------------------------------------------
VARIABLES
  needs_update,   \* self._needs_update
  updating,       \* self._updating
  phase,          \* where the owner is in set_up() / start()
  sourceStarted,  \* self._source.start() has been called
  endpoints,      \* self._source.endpoints
  script,         \* the file at _MIRROR_COMMAND_PATH
  procs,          \* pids of the live processes
  pending,        \* ticks scheduled with spawn_later that have not fired
  inv,            \* the update() invocations in progress, by slot
  directCalls,    \* update() calls made from outside the loop so far
  last,           \* what the update() that has just returned did
  counting,       \* whether this behaviour keeps the two counters below
  fails,          \* consecutive attempts that failed
  nsince,         \* notifications since update() was last entered
  wr              \* the Writer called twice on its own (WriterSpec only)

vars == <<needs_update, updating, phase, sourceStarted, endpoints, script,
          procs, pending, inv, directCalls, last, counting, fails,
          nsince, wr>>

NoCommand == [kind |-> "none"]
NoFile == [exists |-> FALSE, content |-> NoCommand]
FileOf(c) == [exists |-> TRUE, content |-> c]
\* what an interrupted write leaves behind after O_TRUNC
Truncated == [kind |-> "truncated"]

IdleSlot ==
  [pc |-> "idle", origin |-> "none", kill_running |-> FALSE,
   context |-> GenerateContext({}), command |-> NoCommand,
   unchanged |-> FALSE, wrote |-> FALSE, notified |-> FALSE]

NoLast ==
  [origin |-> "none", kill_running |-> FALSE, attempted |-> FALSE,
   generated |-> FALSE, command |-> NoCommand, writer |-> "none",
   wrote |-> FALSE, unchanged |-> FALSE, reaper |-> "none",
   signalled |-> {}, result |-> "none", raised |-> FALSE,
   escaped |-> FALSE, notified |-> FALSE]

\* no Writer call made on its own
NoWriter ==
  [call |-> 0, command |-> NoCommand, before |-> NoFile, after1 |-> NoFile,
   ret1 |-> "none", ret2 |-> "none", writes |-> 0, touched |-> FALSE]

Min(a, b) == IF a < b THEN a ELSE b

\* number of update() invocations that are inside the attempt body
InFlight == Cardinality({i \in Slots : inv[i].pc # "idle"})

InitialNeedsUpdateM == FALSE
\* self._needs_update = True, line 90
InitialNeedsUpdate == TRUE

\* the state after __init__, mirror.py:81-91
Constructed ==
  /\ needs_update = InitialNeedsUpdate
  /\ updating = FALSE
  /\ phase = "new"
  /\ sourceStarted = FALSE
  /\ endpoints = {}
  /\ script \in {NoFile, FileOf(FALLBACK_COMMAND)}
  /\ procs = Pids
  /\ pending = 0
  /\ inv = [i \in Slots |-> IdleSlot]
  /\ directCalls = 0
  /\ last = NoLast
  /\ fails = 0
  /\ nsince = 0
  /\ wr = NoWriter

Init == Constructed /\ counting = FALSE

----------------------------------------------------------------------------
(* The decisions of update() and _update(), mirror.py:141-174, 222-240 *)

\* _should_update
ShouldUpdate(nu, upd) == nu /\ ~upd

SweepRequestedM(updated, kill_running) == updated
SweepRequestedW(updated, kill_running) == kill_running
\* the condition under which _update calls _kill_running, line 236
SweepRequested(updated, kill_running) == updated /\ kill_running

\* the value _update returns, line 240
UpdateResult(updated, success) == updated /\ success

AfterApplyM(nu, success) == nu
\* needs_update after "if not success: self._needs_update = True"
AfterApply(nu, success) == IF ~success THEN TRUE ELSE nu

\* needs_update after the except clause, line 169
AfterException(nu) == TRUE

CaughtM(exc) == exc # "IOError"
\* "except Exception" catches every exception the attempt's calls raise
Caught(exc) == exc \in {"IOError", "TemplateError"}

ScheduleM(t) == t
\* spawn_later(self._max_update_frequency, self.update)
Schedule(t) == t + 1

RescheduleM(t, raised) == IF raised THEN t ELSE Schedule(t)
\* the spawn_later of the finally clause, line 174: it runs whether or not
\* the try block raised
Reschedule(t, raised) == Schedule(t)

\* the kill_running argument set_up() passes, line 98
SetUpKillRunning == FALSE

\* an attempt failed when it raised or _update returned false
Failed(rec) == rec.raised \/ rec.result = "false"

\* The finally clause of update(), and the return of the invocation in
\* slot i: nu is needs_update as the try/except left it, t the pending
\* before the reschedule, rec the record of what the invocation did.
Return(i, nu, t, rec) ==
  /\ needs_update' = nu
  /\ updating' = FALSE
  /\ pending' = Reschedule(t, rec.raised)
  /\ inv' = [inv EXCEPT ![i] = IdleSlot]
  /\ last' = rec
  /\ fails' = IF ~counting \/ ~rec.attempted THEN fails
              ELSE IF Failed(rec) THEN Min(fails + 1, MaxFails) ELSE 0
  /\ UNCHANGED counting

\* the record of the invocation in slot s, before its outcome is known
RecOf(s) ==
  [NoLast EXCEPT !.origin = s.origin, !.kill_running = s.kill_running,
                 !.attempted = TRUE, !.command = s.command,
                 !.unchanged = s.unchanged, !.wrote = s.wrote,
                 !.notified = s.notified]

\* An exception raised inside the try block of update()
Raise(i, exc, rec) ==
  IF Caught(exc)
  THEN Return(i, AfterException(needs_update), pending,
              [rec EXCEPT !.raised = TRUE])
  ELSE Return(i, needs_update, pending,
              [rec EXCEPT !.raised = TRUE, !.escaped = TRUE])

\* update(kill_running) is entered in slot i; lines 157-163 and the
\* reads of self._source.endpoints in _generate_command/_generate_context
Begin(i, origin, k, t) ==
  IF ShouldUpdate(needs_update, updating)
  THEN /\ needs_update' = FALSE
       /\ updating' = TRUE
       /\ inv' = [inv EXCEPT ![i] =
                   IF NoEndpoints(endpoints)
                   THEN [IdleSlot EXCEPT !.pc = "check", !.origin = origin,
                                         !.kill_running = k,
                                         !.command = FALLBACK_COMMAND]
                   ELSE [IdleSlot EXCEPT !.pc = "render", !.origin = origin,
                                         !.kill_running = k,
                                         !.context =
                                            GenerateContext(endpoints)]]
       /\ pending' = t
       /\ last' = NoLast
       /\ UNCHANGED <<counting, fails>>
  ELSE Return(i, needs_update, t,
              [NoLast EXCEPT !.origin = origin, !.kill_running = k])

\* the slot a new invocation takes
FreeSlot(i) ==
  inv[i].pc = "idle" /\ \A j \in Slots : j < i => inv[j].pc # "idle"

Bool(b) == IF b THEN "true" ELSE "false"

----------------------------------------------------------------------------
(* The steps of a reconciliation attempt *)

\* _render, mirror.py:218-220: the template is read and rendered, or raises
RenderStep(i) ==
  /\ inv[i].pc = "render"
  /\ \/ /\ inv' = [inv EXCEPT ![i].pc = "check",
                                ![i].command = Render(inv[i].context)]
        /\ last' = NoLast
        /\ UNCHANGED <<counting, needs_update, updating, pending, fails>>
     \/ \E exc \in {"IOError", "TemplateError"} :
          Raise(i, exc, RecOf(inv[i]))
  /\ UNCHANGED <<phase, sourceStarted, endpoints, script, procs,
                 directCalls, nsince>>
  /\ UNCHANGED wr

\* _update after _update_command has returned `updated`, lines 235-240,
\* and then update() lines 165-174 when no sweep is asked for
AfterWrite(i, updated, s) ==
  IF SweepRequested(updated, s.kill_running)
  THEN /\ inv' = [inv EXCEPT ![i] = [s EXCEPT !.pc = "kill"]]
       /\ last' = NoLast
       /\ UNCHANGED <<counting, needs_update, updating, pending, fails>>
  ELSE LET res == UpdateResult(updated, FALSE) IN
       Return(i, AfterApply(needs_update, res), pending,
              [RecOf(s) EXCEPT !.generated = TRUE,
                               !.writer = Bool(updated),
                               !.result = Bool(res)])

UnchangedM(file, command) == FALSE
\* the test of _update_command, lines 255-257: the script exists and its
\* content is the command
Unchanged(file, command) == file.exists /\ file.content = command

\* the script after the write of lines 265-269
Written(command) == FileOf(command)

\* _update_command, lines 253-260: the comparison with the existing script
CheckStep(i) ==
  /\ inv[i].pc = "check"
  /\ IF script.exists
     THEN \/ Raise(i, "IOError",
                   [RecOf(inv[i]) EXCEPT !.generated = TRUE,
                                         !.writer = "raise"])
          \/ IF Unchanged(script, inv[i].command)
             THEN AfterWrite(i, TRUE, [inv[i] EXCEPT !.unchanged = TRUE])
             ELSE /\ inv' = [inv EXCEPT ![i].pc = "write"]
                  /\ last' = NoLast
                  /\ UNCHANGED <<counting, needs_update, updating, pending,
                                 fails>>
     ELSE /\ inv' = [inv EXCEPT ![i].pc = "write"]
          /\ last' = NoLast
          /\ UNCHANGED <<counting, needs_update, updating, pending, fails>>
  /\ UNCHANGED <<phase, sourceStarted, endpoints, script, procs,
                 directCalls, nsince>>
  /\ UNCHANGED wr

\* _update_command, lines 262-272: the script is opened with O_TRUNC and
\* written; a failure is caught and leaves the old or a truncated file
WriteStep(i) ==
  /\ inv[i].pc = "write"
  /\ \/ /\ script' = Written(inv[i].command)
        /\ AfterWrite(i, TRUE, [inv[i] EXCEPT !.wrote = TRUE])
     \/ /\ script' \in {script, FileOf(Truncated)}
        /\ AfterWrite(i, FALSE, inv[i])
  /\ UNCHANGED <<phase, sourceStarted, endpoints, procs, directCalls,
                 nsince>>
  /\ UNCHANGED wr

SweepResultM(f) == TRUE
\* the value _kill_running returns, lines 281 and 292-298: f is the process
\* at which the loop raised, 0 when it ran to its end
SweepResult(f) == f = 0

\* _kill_running, lines 281-298, and then update() lines 165-174.  The
\* processes are visited in pid order; f is the process at which
\* cmdline() or kill() raises (0: none does), which ends the loop.
KillStep(i) ==
  /\ inv[i].pc = "kill"
  /\ \E f \in procs \cup {0} :
       LET visited == IF f = 0 THEN procs ELSE {p \in procs : p < f}
           killed == {p \in visited : Matches(JoinArgs(CmdLine[p]))}
           success == SweepResult(f)
           res == UpdateResult(TRUE, success)
       IN /\ procs' = procs \ killed
          /\ Return(i, AfterApply(needs_update, res), pending,
                    [RecOf(inv[i]) EXCEPT !.generated = TRUE,
                                          !.writer = "true",
                                          !.reaper = Bool(success),
                                          !.signalled = killed,
                                          !.result = Bool(res)])
  /\ UNCHANGED <<phase, sourceStarted, endpoints, script, directCalls,
                 nsince>>
  /\ UNCHANGED wr

----------------------------------------------------------------------------
(* Life cycle: set_up(), start(), mirror.py:93-107 *)

\* set_up(), line 97
SetUpSource ==
  /\ phase = "new"
  /\ phase' = "set_up"
  /\ sourceStarted' = TRUE
  /\ last' = NoLast
  /\ UNCHANGED <<counting, needs_update, updating, endpoints, script,
                 procs, pending, inv, directCalls, fails, nsince>>
  /\ UNCHANGED wr

\* set_up(), line 98
SetUpUpdate ==
  /\ phase = "set_up"
  /\ phase' = "running"
  /\ \E i \in Slots :
        FreeSlot(i) /\ Begin(i, "set_up", SetUpKillRunning, pending)
  /\ nsince' = 0
  /\ UNCHANGED <<sourceStarted, endpoints, script, procs, directCalls>>
  /\ UNCHANGED wr

\* start(), line 106
StartSource ==
  /\ phase = "new"
  /\ phase' = "start"
  /\ sourceStarted' = TRUE
  /\ last' = NoLast
  /\ UNCHANGED <<counting, needs_update, updating, endpoints, script,
                 procs, pending, inv, directCalls, fails, nsince>>
  /\ UNCHANGED wr

\* start(), line 107
StartSpawn ==
  /\ phase = "start"
  /\ phase' = "started"
  /\ pending' = Schedule(pending)
  /\ last' = NoLast
  /\ UNCHANGED <<counting, needs_update, updating, sourceStarted,
                 endpoints, script, procs, inv, directCalls, fails, nsince>>
  /\ UNCHANGED wr

----------------------------------------------------------------------------
(* Environment: the source, the clock, the scheduler, the supervisor *)

OnUpdateM(nu, upd) == [needs_update |-> TRUE, updating |-> FALSE]
\* _on_add / _on_remove / _on_update, mirror.py:109-139: the two flags
\* after the callback
OnUpdate(nu, upd) == [needs_update |-> TRUE, updating |-> upd]

\* the source adds or removes an endpoint and calls _on_add / _on_remove
Notify ==
  /\ sourceStarted
  /\ \E e \in Endpoints :
        endpoints' = IF e \in endpoints THEN endpoints \ {e}
                     ELSE endpoints \cup {e}
  /\ needs_update' = OnUpdate(needs_update, updating).needs_update
  /\ updating' = OnUpdate(needs_update, updating).updating
  /\ inv' = [i \in Slots |->
               IF inv[i].pc = "idle" THEN inv[i]
               ELSE [inv[i] EXCEPT !.notified = TRUE]]
  /\ nsince' = IF counting THEN Min(nsince + 1, MaxNotes) ELSE nsince
  /\ last' = NoLast
  /\ UNCHANGED <<counting, phase, sourceStarted, script, procs, pending,
                 directCalls, fails>>
  /\ UNCHANGED wr

\* phase "started": start() has returned and update() has not been
\* entered yet; the first update() makes it "running"
Entered(ph) == IF ph = "started" THEN "running" ELSE ph

FiredM(t) == t
\* spawn_later runs its callable once: the tick that fires is no longer
\* scheduled
Fired(t) == t - 1

\* a scheduled tick is due and gevent runs update(), kill_running = True
Tick ==
  /\ pending > 0
  /\ \E i \in Slots :
        /\ FreeSlot(i)
        /\ Begin(i, "tick", TRUE, Fired(pending))
  /\ nsince' = 0
  /\ phase' = Entered(phase)
  /\ UNCHANGED <<sourceStarted, endpoints, script, procs, directCalls>>
  /\ UNCHANGED wr

\* some other greenlet calls update() itself, with the default argument
DirectUpdate ==
  /\ phase \in {"started", "running"}
  /\ directCalls < MaxDirect
  /\ directCalls' = directCalls + 1
  /\ \E i \in Slots : FreeSlot(i) /\ Begin(i, "direct", TRUE, pending)
  /\ nsince' = 0
  /\ phase' = Entered(phase)
  /\ UNCHANGED <<sourceStarted, endpoints, script, procs>>
  /\ UNCHANGED wr

\* the supervisor (Aurora) starts again the processes that were killed
Respawn ==
  /\ procs # Pids
  /\ procs' = Pids
  /\ last' = NoLast
  /\ UNCHANGED <<counting, needs_update, updating, phase, sourceStarted,
                 endpoints, script, pending, inv, directCalls, fails,
                 nsince>>
  /\ UNCHANGED wr

----------------------------------------------------------------------------
Step == \E i \in Slots :
          RenderStep(i) \/ CheckStep(i) \/ WriteStep(i) \/ KillStep(i)

Next ==
  \/ SetUpSource \/ SetUpUpdate \/ StartSource \/ StartSpawn
  \/ Notify \/ Tick \/ DirectUpdate \/ Respawn
  \/ Step

Spec == Init /\ [][Next]_vars

\* the engine as its owner runs it: update() is called by set_up() and by
\* the scheduled ticks only
LoopNext ==
  \/ SetUpSource \/ SetUpUpdate \/ StartSource \/ StartSpawn
  \/ Notify \/ Tick \/ Respawn
  \/ Step

LoopInit == Constructed /\ counting = TRUE

LoopSpec == LoopInit /\ [][LoopNext]_vars

\* the loop under gevent's scheduling: a tick scheduled with spawn_later
\* fires, and a blocking call of an attempt returns or raises
FairSpec == LoopSpec /\ WF_vars(Tick) /\ WF_vars(Step)

----------------------------------------------------------------------------
(* The Writer on its own: _update_command(command, command_path) called
   twice with the same command, mirror.py:242-272 *)

\* the commands _generate_command can produce
Commands == {GenerateCommand(eps) : eps \in SUBSET Endpoints}
\* what can be at the script's path
Files == {NoFile, FileOf(Truncated)} \cup {FileOf(c) : c \in Commands}

WriterInit ==
  /\ needs_update = TRUE /\ updating = FALSE /\ phase = "new"
  /\ sourceStarted = FALSE /\ endpoints = {} /\ procs = Pids
  /\ pending = 0 /\ inv = [i \in Slots |-> IdleSlot] /\ directCalls = 0
  /\ last = NoLast /\ counting = FALSE /\ fails = 0 /\ nsince = 0
  /\ script \in Files
  /\ \E c \in Commands : wr = [NoWriter EXCEPT !.command = c, !.before = script]

\* the bookkeeping of a call that returned ret and left the file f
Called(ret, f, wrote) ==
  /\ script' = f
  /\ wr' = [wr EXCEPT !.call = @ + 1,
                      !.writes = @ + (IF wrote THEN 1 ELSE 0),
                      !.ret1 = IF wr.call = 0 THEN ret ELSE @,
                      !.after1 = IF wr.call = 0 THEN f ELSE @,
                      !.ret2 = IF wr.call = 1 THEN ret ELSE @]

\* one call of _update_command(wr.command, path)
WriterCall ==
  /\ wr.call < 2
  /\ \/ script.exists /\ Called("raise", script, FALSE)
     \/ IF Unchanged(script, wr.command)
        THEN Called("true", script, FALSE)
        ELSE \/ Called("true", Written(wr.command), TRUE)
             \/ \E f \in {script, FileOf(Truncated)} :
                  Called("false", f, FALSE)
  /\ UNCHANGED <<needs_update, updating, phase, sourceStarted, endpoints,
                 procs, pending, inv, directCalls, last, counting, fails,
                 nsince>>

\* something else changes the file between the two calls
Intervene ==
  /\ wr.call = 1 /\ ~wr.touched
  /\ script' \in Files \ {script}
  /\ wr' = [wr EXCEPT !.touched = TRUE]
  /\ UNCHANGED <<needs_update, updating, phase, sourceStarted, endpoints,
                 procs, pending, inv, directCalls, last, counting, fails,
                 nsince>>

WriterNext == WriterCall \/ Intervene

WriterSpec == WriterInit /\ [][WriterNext]_vars

----------------------------------------------------------------------------
(* Claims *)

\* `last` is the record of the update() call that returned in the step
\* that led to the current state, so a predicate on `last` speaks of the
\* state immediately after that call returned.
Returned == last.origin # "none"

\* C1: at most one reconciliation attempt (the generate-write-kill body of
\* update()) is in progress in any reachable state.
MutualExclusion == InFlight <= 1

\* C2: whatever update() did (skipped, succeeded, failed, raised), a tick is
\* pending when it has returned; also after MaxFails failures in a row.
NoDeadLoop == Returned => pending >= 1

NoDeadLoopWitness ==
  Returned /\ last.raised /\ fails = MaxFails /\ pending >= 1

\* C3: when command generation raised, or the script write returned false
\* or raised, needs_update is true right after update() has returned.
RetryOnFailure ==
  (last.attempted /\ (~last.generated \/ last.writer \in {"false", "raise"}))
    => needs_update

RetryOnFailureWitness ==
  last.attempted /\ last.generated /\ last.writer = "false" /\ needs_update

\* C4: after an attempt whose generation succeeded, whose write returned
\* true, whose sweep (if any) succeeded and during which no notification
\* arrived, needs_update is false; also for the attempt of set_up().
ClearedOnSuccess ==
  (/\ last.attempted /\ last.generated /\ last.writer = "true"
   /\ last.reaper # "false" /\ ~last.notified)
    => ~needs_update

\* C5: an attempt during which a notification arrived returns with
\* needs_update true, even if it succeeded.
NotificationKept == (last.attempted /\ last.notified) => needs_update

\* a tick fires in this step: it starts an attempt or skips
TickFired ==
  \/ pending' = pending - 1
  \/ last'.origin = "tick" /\ ~last'.attempted

\* C6: a tick that fires after N >= 1 notifications starts exactly one
\* attempt, and the attempt generates from the endpoints as they are at
\* the tick.
Debounce ==
  [][(nsince >= 1 /\ TickFired) =>
       /\ InFlight = 0 /\ InFlight' = 1
       /\ ~needs_update'
       /\ \E i \in Slots :
            /\ inv'[i].origin = "tick"
            /\ IF endpoints = {}
               THEN inv'[i].pc = "check"
                    /\ inv'[i].command = FALLBACK_COMMAND
               ELSE inv'[i].pc = "render"
                    /\ inv'[i].context.endpoints = endpoints]_vars

DebounceWitness ==
  /\ nsince = 0 /\ InFlight = 1
  /\ \E i \in Slots : /\ inv[i].origin = "tick" /\ inv[i].pc = "render"
                       /\ inv[i].context.endpoints = endpoints
                       /\ endpoints # {}

\* C7: an attempt that finds the script equal to its command writes
\* nothing, does not call the Reaper and signals no process.
NoRestartWhenUnchanged ==
  last.unchanged =>
    ~last.wrote /\ last.reaper = "none" /\ last.signalled = {}

\* C8: no exception leaves update(): one raised by generation or by the
\* Writer is caught and leaves needs_update true, and a failure in the
\* Reaper leaves needs_update true as well.
NoExceptionEscapes ==
  /\ ~last.escaped
  /\ (last.raised \/ last.reaper = "false") => needs_update

NoExceptionEscapesWitness ==
  last.raised /\ ~last.generated /\ ~last.escaped /\ needs_update

\* C9: the Writer (_update_command) returns true or false and never
\* raises, also when reading the existing script fails.
WriterNeverRaises == last.writer # "raise"

\* C10: set_up() starts the source before it enters update(); its
\* update() makes an attempt (it never skips) and that attempt neither
\* invokes the Reaper nor signals a process.
SetUpContract ==
  /\ phase = "set_up" => sourceStarted
  /\ \A i \in Slots :
       inv[i].origin = "set_up" =>
         sourceStarted /\ ~inv[i].kill_running /\ inv[i].pc # "kill"
  /\ Cardinality({i \in Slots : inv[i].origin = "set_up"}) <= 1
  /\ last.origin = "set_up" =>
       last.attempted /\ last.reaper = "none" /\ last.signalled = {}

SetUpContractWitness ==
  /\ last.origin = "set_up" /\ last.attempted /\ last.wrote
  /\ \E p \in procs : Matches(JoinArgs(CmdLine[p]))

\* C11: start() starts the source and schedules one tick, and makes no
\* attempt itself: until the first update() is entered no invocation is in
\* progress, the script and the process table are as they were and the
\* flags are as constructed (needs_update may only have been set again).
StartContract ==
  /\ phase = "start" => sourceStarted /\ pending = 0
  /\ phase = "started" => sourceStarted /\ pending = 1
  /\ phase \in {"start", "started"} =>
       /\ InFlight = 0 /\ ~updating /\ needs_update
       /\ script \in {NoFile, FileOf(FALLBACK_COMMAND)}
       /\ procs = Pids /\ last = NoLast

StartContractWitness ==
  phase = "started" /\ pending = 1 /\ InFlight = 0 /\ endpoints # {}

\* the invocations in progress without the history flag `notified`
Progress(v) ==
  [i \in Slots |-> [pc |-> v[i].pc, kill_running |-> v[i].kill_running,
                    context |-> v[i].context, command |-> v[i].command]]

\* C12: a notification (the only step that changes the source's endpoints)
\* sets needs_update and leaves updating, the script, the process table,
\* the pending ticks and the invocations in progress as they are.
NotifyFrame ==
  [][endpoints' # endpoints =>
       /\ needs_update'
       /\ updating' = updating
       /\ script' = script /\ procs' = procs /\ pending' = pending
       /\ phase' = phase /\ Progress(inv') = Progress(inv)]_vars

NotifyFrameWitness ==
  /\ updating /\ needs_update
  /\ \E i \in Slots : inv[i].pc # "idle" /\ inv[i].notified

\* process p has x as a fragment of one of its arguments
HasFragment(p, x) ==
  \E a \in 1..Len(CmdLine[p]) :
    \E k \in 1..Len(CmdLine[p][a]) : CmdLine[p][a][k] = x
\* the processes running the gor binary or the fallback script
MirrorProcs ==
  {p \in Pids : HasFragment(p, GOR_PATH) \/ HasFragment(p, FALLBACK_MSG)}

\* C14: whatever a sweep signals is a process whose command line contains
\* the gor path or the fallback sentinel, and a sweep that completed
\* without failure signalled every such process: none of them is left
\* alive and no other process is missing.
ReaperMatching ==
  /\ last.signalled \subseteq MirrorProcs
  /\ last.reaper = "true" =>
       /\ procs \cap MirrorProcs = {}
       /\ Pids \ MirrorProcs \subseteq procs

ReaperMatchingWitness ==
  /\ last.reaper = "true" /\ last.signalled = MirrorProcs
  /\ Cardinality(MirrorProcs) = 2 /\ procs = Pids \ MirrorProcs

\* C15: the sweep never raises; when it returned true it went through
\* every process, even if none matched; when it returned false the
\* attempt returned false and left needs_update true.
ReaperResult ==
  /\ last.reaper # "none" =>
       /\ ~last.raised /\ ~last.escaped
       /\ last.writer = "true" /\ last.kill_running
       /\ last.result = last.reaper
  /\ last.reaper = "true" => \A p \in procs : ~HasFragment(p, GOR_PATH)
  /\ last.reaper = "false" => needs_update /\ Failed(last)

ReaperResultWitness ==
  /\ last.reaper = "false" /\ needs_update /\ ~last.notified
  /\ \E p \in procs : HasFragment(p, GOR_PATH)

\* a sweep that completed although no process matched
ReaperNoMatchWitness == last.reaper = "true" /\ last.signalled = {}

\* the context _generate_context builds from the endpoints read at
\* generation time
ContextOf(eps) ==
  [gor_path |-> GOR_PATH, ports |-> Ports, endpoints |-> eps,
   max_qps |-> MaxQps]

\* C16: an attempt that starts with no endpoints takes the fallback
\* constant as its command without going through the renderer; one that
\* starts with endpoints renders the context {gor path, ports, the
\* current endpoints, max_qps}, and its command is the renderer's output
\* for that context.
FallbackCorrect ==
  [][\A i \in Slots :
       /\ (inv[i].pc = "idle" /\ inv'[i].pc # "idle") =>
            IF endpoints = {}
            THEN inv'[i].pc = "check" /\ inv'[i].command = FALLBACK_COMMAND
            ELSE /\ inv'[i].pc = "render"
                 /\ inv'[i].context = ContextOf(endpoints)
       /\ (inv[i].pc = "render" /\ inv'[i].pc \notin {"idle", "render"}) =>
            /\ inv'[i].pc = "check"
            /\ inv'[i].command = [kind |-> "gor", ctx |-> inv[i].context]
       /\ (inv[i].pc \notin {"idle", "render"} /\ inv'[i].pc # "idle") =>
            inv'[i].command = inv[i].command]_vars

FallbackCorrectWitness ==
  /\ last.writer = "true" /\ last.command = FALLBACK_COMMAND
  /\ script = FileOf(FALLBACK_COMMAND) /\ last.wrote

FallbackRenderedWitness ==
  /\ last.writer = "true" /\ last.wrote
  /\ last.command = [kind |-> "gor", ctx |-> ContextOf(Endpoints)]

\* C17: while a reconciliation attempt is in progress the updating flag is
\* true.
UpdatingCoversAttempt == InFlight >= 1 => updating

\* C18: within an attempt the steps go generate, write, sweep.  The sweep
\* starts only from the Writer's step, with kill_running true and the
\* script holding the attempt's generated command; processes are signalled
\* only by an attempt that is in its sweep; and an update() whose
\* generation raised or whose Writer did not return true signalled none.
StepOrder ==
  /\ [](last.attempted /\ (~last.generated \/ last.writer # "true") =>
          last.signalled = {} /\ last.reaper = "none")
  /\ [][/\ \A i \in Slots :
            /\ (inv'[i].pc = "kill" /\ inv[i].pc # "kill") =>
                 /\ inv[i].pc \in {"check", "write"}
                 /\ inv[i].kill_running
                 /\ inv[i].command \notin {NoCommand, Truncated}
                 /\ script' = FileOf(inv[i].command)
            /\ (inv'[i].pc = "write" /\ inv[i].pc # "write") =>
                 inv[i].pc = "check"
            /\ (inv'[i].pc = "check" /\ inv[i].pc # "check") =>
                 inv[i].pc \in {"idle", "render"}
            /\ (inv'[i].pc = "render" /\ inv[i].pc # "render") =>
                 inv[i].pc = "idle"
        /\ (procs' # procs /\ procs' \subseteq procs) =>
             \E i \in Slots :
               /\ inv[i].pc = "kill" /\ inv[i].kill_running
               /\ inv'[i].pc = "idle"]_vars

StepOrderWitness ==
  /\ last.generated /\ last.writer = "true" /\ last.wrote
  /\ last.reaper = "true" /\ last.signalled # {}
  /\ last.command # FALLBACK_COMMAND

\* an attempt whose write failed, and one whose generation raised
StepOrderFailedWitness ==
  \/ last.attempted /\ last.writer = "false" /\ last.kill_running
  \/ last.attempted /\ ~last.generated /\ last.raised

\* C19: once start() has scheduled the first tick, or set_up() has called
\* update(), and update() is called by nothing else, the ticks scheduled
\* plus the update() invocations in progress are exactly one.
TickConservation ==
  phase \in {"started", "running"} => pending + InFlight = 1

TickConservationWitness ==
  /\ phase = "running" /\ pending = 1 /\ InFlight = 0
  /\ last.origin = "tick" /\ ~last.attempted

\* the script holds the command for the current endpoints, nothing is left
\* to do and no attempt is in progress
Converged ==
  /\ script = FileOf(GenerateCommand(endpoints))
  /\ ~needs_update /\ ~updating /\ InFlight = 0

TypeOK ==
  /\ needs_update \in BOOLEAN /\ updating \in BOOLEAN
  /\ phase \in {"new", "set_up", "start", "started", "running"}
  /\ endpoints \subseteq Endpoints /\ procs \subseteq Pids
  /\ directCalls \in 0..MaxDirect
  /\ fails \in 0..MaxFails /\ nsince \in 0..MaxNotes
  /\ wr.call \in 0..2 /\ wr.writes \in 0..wr.call
====
